---- MODULE Spec2Model ----
(***************************************************************************)
(* avl_tree (src/avl_tree.hpp) and interval_tree (src/interval_tree.hpp).  *)
(*                                                                         *)
(* The heap is the function mem from addresses to node records; a pointer  *)
(* is an address and Null is 0.  A tree object is a record of objs; its    *)
(* header node lives in mem like every other node, so that a link of one   *)
(* tree that refers to a node of another tree is a value the model can     *)
(* hold.  The allocator may hand out any unused address and the code reads *)
(* addresses only to compare them, so allocate picks the unused address    *)
(* that the owning tree and the key determine: two heaps that differ only  *)
(* by a renaming of addresses are then one state.                          *)
(* kind tells which template instance the behaviour is about: avl_tree     *)
(* <int,int> with AVL::rotation / AVL::updater ("avl"), or interval_tree   *)
(* <int,int>, that is avl_tree with Interval_Compare, Interval::rotation   *)
(* and Interval::updater ("interval").                                     *)
(***************************************************************************)
EXTENDS Integers, Sequences, FiniteSets, TLC

VARIABLES mem, objs, kind, pc, last, hist

vars == <<mem, objs, kind, pc, last, hist>>

\* mem    the heap: address -> node record
\* objs   the tree objects constructed so far (1: the first tree, 2: the second)
\* kind   the template instance, "avl" or "interval"
\* pc     "ready" between calls; "hang" in a call that never returns; "fault"
\*        after a read through a null link
\* last   the last call: its operation, tree, argument and what it returned
\* hist   per tree, the arguments of the insert calls made on it so far

\* ------------------------------------------------------------------ bounds
MaxNodes == 6
MaxKey == 3
MaxCallNodes == 3
MaxCallKey == 1
MaxCalls == 3
MaxPairKey == 1

\* Keys on both sides of Key() = 0.
MinKey == 0 - 2

Keys == MinKey..MaxKey
CallKeys == (0 - 1)..MaxCallKey
PairKeys == (0 - 1)..MaxPairKey
Spans == {1, 3}
Datas == {1, 2}

\* ------------------------------------------------------------ node records
Null == 0

\* Key() and Data() of the int instances: what value-initialisation of the
\* header's _value gives (std::pair's default constructor).
KeyDefault == 0

pair(a, b) == [first |-> a, second |-> b]

interval_tree_value(max, min, data) == [max |-> max, min |-> min, data |-> data]

DefaultValue(k) ==
  IF k = "avl"
    THEN pair(KeyDefault, KeyDefault)
    ELSE pair(pair(KeyDefault, KeyDefault),
              interval_tree_value(KeyDefault, KeyDefault, KeyDefault))

_avl_tree_node(parent, left, right, balance, value) ==
  [_parent |-> parent, _left |-> left, _right |-> right,
   _balance |-> balance, _value |-> value]

\* A comparison that is not strict.
LessOrEqual(a, b) == a <= b

\* std::less<Key>
Less(a, b) == a < b

\* An order of the whole interval: by low end, then by high end.
Interval_Compare_both_ends(x, y) ==
  Less(x.first, y.first) \/ (x.first = y.first /\ Less(x.second, y.second))

Interval_Compare(x, y) == Less(x.first, y.first)

Interval_overlap(x, y) == Less(x.first, y.second) /\ Less(y.first, x.second)

\* The Compare template argument of the instance.
_compare(k, x, y) == IF k = "avl" THEN Less(x, y) ELSE Interval_Compare(x, y)

\* std::max / std::min
StdMax(a, b) == IF a < b THEN b ELSE a

StdMin(a, b) == IF b < a THEN b ELSE a

\* --------------------------------------------------------------- rotations
AVL_rotation_left(m, x, h) ==
  LET y  == m[x]._right
      m1 == [m EXCEPT ![x]._right = m[y]._left]
      m2 == IF m1[y]._left # Null
              THEN [m1 EXCEPT ![m1[y]._left]._parent = x]
              ELSE m1
      m3 == [m2 EXCEPT ![y]._parent = m2[x]._parent]
      m4 == IF x = m3[h]._parent
              THEN [m3 EXCEPT ![h]._parent = y]
              ELSE IF x = m3[m3[x]._parent]._left
                     THEN [m3 EXCEPT ![m3[x]._parent]._left = y]
                     ELSE [m3 EXCEPT ![m3[x]._parent]._right = y]
      m5 == [m4 EXCEPT ![y]._left = x]
  IN  [m5 EXCEPT ![x]._parent = y]

AVL_rotation_right(m, x, h) ==
  LET y  == m[x]._left
      m1 == [m EXCEPT ![x]._left = m[y]._right]
      m2 == IF m1[y]._right # Null
              THEN [m1 EXCEPT ![m1[y]._right]._parent = x]
              ELSE m1
      m3 == [m2 EXCEPT ![y]._parent = m2[x]._parent]
      m4 == IF x = m3[h]._parent
              THEN [m3 EXCEPT ![h]._parent = y]
              ELSE IF x = m3[m3[x]._parent]._right
                     THEN [m3 EXCEPT ![m3[x]._parent]._right = y]
                     ELSE [m3 EXCEPT ![m3[x]._parent]._left = y]
      m5 == [m4 EXCEPT ![y]._right = x]
  IN  [m5 EXCEPT ![x]._parent = y]

_update_min_max(m, x) ==
  LET p  == m[x]._parent
      m1 == [m EXCEPT ![p]._value.second.max = m[x]._value.second.max,
                      ![p]._value.second.min = m[x]._value.second.min]
      m2 == [m1 EXCEPT ![x]._value.second.max = m1[x]._value.first.second,
                       ![x]._value.second.min = m1[x]._value.first.first]
      l  == m2[x]._left
      m3 == IF l # Null
              THEN [m2 EXCEPT
                      ![x]._value.second.max = StdMax(@, m2[l]._value.second.max),
                      ![x]._value.second.min = StdMin(@, m2[l]._value.second.min)]
              ELSE m2
      r  == m3[x]._right
  IN  IF r # Null
        THEN [m3 EXCEPT
                ![x]._value.second.max = StdMax(@, m3[r]._value.second.max),
                ![x]._value.second.min = StdMin(@, m3[r]._value.second.min)]
        ELSE m3

Interval_rotation_left(m, x, h) == _update_min_max(AVL_rotation_left(m, x, h), x)

Interval_rotation_right(m, x, h) == _update_min_max(AVL_rotation_right(m, x, h), x)

\* The Rotation template argument of the instance.
Rotation_left(k, m, x, h) ==
  IF k = "avl" THEN AVL_rotation_left(m, x, h) ELSE Interval_rotation_left(m, x, h)

Rotation_right(k, m, x, h) ==
  IF k = "avl" THEN AVL_rotation_right(m, x, h) ELSE Interval_rotation_right(m, x, h)

\* ---------------------------------------------------------------- updaters
\* The retrace that stops before the rebalance candidate instead of after it.
RECURSIVE AVL_updater_update_exclusive(_, _, _)
AVL_updater_update_exclusive(m, leaf, unbalanced) ==
  LET p  == m[leaf]._parent
      m1 == IF m[p]._left = leaf
              THEN [m EXCEPT ![p]._balance = @ - 1]
              ELSE [m EXCEPT ![p]._balance = @ + 1]
  IN  IF p = unbalanced THEN m ELSE AVL_updater_update_exclusive(m1, p, unbalanced)

RECURSIVE AVL_updater_update(_, _, _)
AVL_updater_update(m, leaf, unbalanced) ==
  LET p  == m[leaf]._parent
      m1 == IF m[p]._left = leaf
              THEN [m EXCEPT ![p]._balance = @ - 1]
              ELSE [m EXCEPT ![p]._balance = @ + 1]
  IN  IF p = unbalanced THEN m1 ELSE AVL_updater_update(m1, p, unbalanced)

RECURSIVE Interval_updater_loop(_, _, _, _, _)
Interval_updater_loop(m, leaf, unbalanced, h, unbalance_switch) ==
  LET p  == m[leaf]._parent
      m1 == IF ~unbalance_switch
              THEN IF m[p]._left = leaf
                     THEN [m EXCEPT ![p]._balance = @ - 1]
                     ELSE [m EXCEPT ![p]._balance = @ + 1]
              ELSE m
      m2 == [m1 EXCEPT
               ![p]._value.second.max = StdMax(m1[leaf]._value.second.max, @),
               ![p]._value.second.min = StdMin(m1[leaf]._value.second.min, @)]
  IN  IF p = m2[h]._parent
        THEN m2
        ELSE Interval_updater_loop(m2, p, unbalanced, h,
                                   unbalance_switch \/ p = unbalanced)

Interval_updater_update(m, x, unbalanced, h) ==
  Interval_updater_loop(m, x, unbalanced, h, FALSE)

\* The Updater template argument of the instance.
Updater_update(k, m, leaf, unbalanced, h) ==
  IF k = "avl"
    THEN AVL_updater_update(m, leaf, unbalanced)
    ELSE Interval_updater_update(m, leaf, unbalanced, h)

\* --------------------------------------------------------------- rebalance
\* The balances _rebalance writes: those of the candidate, of its heavy-side
\* child and, where two rotations follow, of that child's inner child.
_rebalance_balances(m, unbalanced) ==
  IF m[unbalanced]._balance = 2
    THEN LET right == m[unbalanced]._right
         IN  IF m[right]._balance = 1
               THEN [m EXCEPT ![unbalanced]._balance = 0, ![right]._balance = 0]
               ELSE LET rl == m[right]._left
                        b  == m[rl]._balance
                        m1 == IF b = 1
                                THEN [m EXCEPT ![unbalanced]._balance = -1,
                                               ![right]._balance = 0]
                                ELSE IF b = 0
                                  THEN [m EXCEPT ![unbalanced]._balance = 0,
                                                 ![right]._balance = 0]
                                  ELSE IF b = -1
                                    THEN [m EXCEPT ![unbalanced]._balance = 0,
                                                   ![right]._balance = 1]
                                    ELSE m
                    IN  [m1 EXCEPT ![rl]._balance = 0]
    ELSE IF m[unbalanced]._balance = -2
      THEN LET left == m[unbalanced]._left
           IN  IF m[left]._balance = -1
                 THEN [m EXCEPT ![unbalanced]._balance = 0, ![left]._balance = 0]
                 ELSE LET lr == m[left]._right
                          b  == m[lr]._balance
                          m1 == IF b = 1
                                  THEN [m EXCEPT ![unbalanced]._balance = 0,
                                                 ![left]._balance = -1]
                                  ELSE IF b = 0
                                    THEN [m EXCEPT ![unbalanced]._balance = 0,
                                                   ![left]._balance = 0]
                                    ELSE IF b = -1
                                      THEN [m EXCEPT ![unbalanced]._balance = 1,
                                                     ![left]._balance = 0]
                                      ELSE m
                      IN  [m1 EXCEPT ![lr]._balance = 0]
      ELSE m

\* A rebalance that never rotates the heavy-side child first.
_rebalance_rotations_candidate_only(m, unbalanced) ==
  IF m[unbalanced]._balance = 2
    THEN <<[dir |-> "left", at |-> unbalanced]>>
    ELSE IF m[unbalanced]._balance = -2
      THEN <<[dir |-> "right", at |-> unbalanced]>>
      ELSE <<>>

\* The calls of Rotation::left and Rotation::right that _rebalance makes, in
\* the order it makes them, each with the node it is applied at.
_rebalance_rotations(m, unbalanced) ==
  IF m[unbalanced]._balance = 2
    THEN LET right == m[unbalanced]._right
         IN  IF m[right]._balance = 1
               THEN <<[dir |-> "left", at |-> unbalanced]>>
               ELSE <<[dir |-> "right", at |-> right],
                      [dir |-> "left", at |-> unbalanced]>>
    ELSE IF m[unbalanced]._balance = -2
      THEN LET left == m[unbalanced]._left
           IN  IF m[left]._balance = -1
                 THEN <<[dir |-> "right", at |-> unbalanced]>>
                 ELSE <<[dir |-> "left", at |-> left],
                        [dir |-> "right", at |-> unbalanced]>>
      ELSE <<>>

RECURSIVE _rebalance_rotate(_, _, _, _)
_rebalance_rotate(k, m, rots, h) ==
  IF rots = <<>> THEN m
  ELSE _rebalance_rotate(k,
         IF Head(rots).dir = "left"
           THEN Rotation_left(k, m, Head(rots).at, h)
           ELSE Rotation_right(k, m, Head(rots).at, h),
         Tail(rots), h)

\* _rebalance: in each case of the switch every balance is written before
\* the first rotation, and no rotation reads or writes a balance.
_rebalance(k, m, unbalanced, h) ==
  _rebalance_rotate(k, _rebalance_balances(m, unbalanced),
                    _rebalance_rotations(m, unbalanced), h)

\* ------------------------------------------------- in-order iterator steps
\* A loop of the code that no longer changes anything it reads never ends:
\* Hang is what such a call yields.  Fault is a read through a null link.
Hang == 0 - 1

Fault == 0 - 2

IsNode(x) == x > 0

RECURSIVE DecrementDown(_, _, _)
DecrementDown(m, y, fuel) ==
  IF fuel = 0 THEN Hang
  ELSE IF m[y]._right # Null THEN DecrementDown(m, m[y]._right, fuel - 1)
  ELSE y

RECURSIVE DecrementUp(_, _, _, _)
DecrementUp(m, x, y, fuel) ==
  IF fuel = 0 THEN Hang
  ELSE IF y = Null THEN Fault
  ELSE IF x = m[y]._left THEN DecrementUp(m, y, m[y]._parent, fuel - 1)
  ELSE y

\* More steps than a loop has states to be in: the loop is back where it was.
Fuel(m) == Cardinality(DOMAIN m) * Cardinality(DOMAIN m) + 1

_avl_tree_decrement(m, x) ==
  IF m[x]._left # Null
    THEN DecrementDown(m, m[x]._left, Fuel(m))
    ELSE DecrementUp(m, x, m[x]._parent, Fuel(m))

RECURSIVE IncrementDown(_, _, _)
IncrementDown(m, x, fuel) ==
  IF fuel = 0 THEN Hang
  ELSE IF m[x]._left # Null THEN IncrementDown(m, m[x]._left, fuel - 1)
  ELSE x

RECURSIVE IncrementUp(_, _, _, _)
IncrementUp(m, x, y, fuel) ==
  IF fuel = 0 THEN Hang
  ELSE IF y = Null THEN Fault
  ELSE IF x = m[y]._right THEN IncrementUp(m, y, m[y]._parent, fuel - 1)
  ELSE IF m[x]._right # y THEN y
  ELSE x

_avl_tree_increment(m, x) ==
  IF m[x]._right # Null
    THEN IncrementDown(m, m[x]._right, Fuel(m))
    ELSE IncrementUp(m, x, m[x]._parent, Fuel(m))

begin(m, h) == m[h]._left

\* ------------------------------------------------------------------ insert
\* The address spaces of the tree objects: the header, then one address per
\* key of Keys.
Stride == MaxKey - MinKey + 2

HeaderAddr(t) == (t - 1) * Stride + 1

SetMax(S) == CHOOSE x \in S : \A y \in S : y <= x

\* The key an entry is ordered by, as an integer.
LowOf(k, key) == IF k = "avl" THEN key ELSE key.first

\* _alloc.allocate(1) for a node of the tree of header h that will hold key.
allocate(k, m, h, key) ==
  LET a == h + LowOf(k, key) - MinKey + 1
  IN  IF a > h /\ a < h + Stride /\ a \notin DOMAIN m
        THEN a
        ELSE SetMax(DOMAIN m \cup {2 * Stride}) + 1

\* The link step that forgets to move the header's leftmost node.
_insert_link_no_leftmost(m, insert_left, p, leaf, h) ==
  IF p = h \/ insert_left
    THEN LET a == [m EXCEPT ![p]._left = leaf]
         IN  IF p = h
               THEN [a EXCEPT ![h]._parent = leaf, ![h]._right = leaf]
               ELSE a
    ELSE LET a == [m EXCEPT ![p]._right = leaf]
         IN  IF p = a[h]._right
               THEN [a EXCEPT ![h]._right = leaf]
               ELSE a

\* _insert, "Insert.": the leaf becomes a child of p, and the header keeps
\* the root, the leftmost and the rightmost node.
_insert_link(m, insert_left, p, leaf, h) ==
  IF p = h \/ insert_left
    THEN LET a == [m EXCEPT ![p]._left = leaf]
         IN  IF p = h
               THEN [a EXCEPT ![h]._parent = leaf, ![h]._right = leaf]
               ELSE IF p = a[h]._left
                 THEN [a EXCEPT ![h]._left = leaf]
                 ELSE a
    ELSE LET a == [m EXCEPT ![p]._right = leaf]
         IN  IF p = a[h]._right
               THEN [a EXCEPT ![h]._right = leaf]
               ELSE a

\* _insert up to and with "Update balances bottom-up.": the heap that
\* _rebalance is called on.
_insert_update(k, m, insert_left, p, v, unbalanced, h) ==
  LET leaf == allocate(k, m, h, v.first)
      m0 == m @@ (leaf :> _avl_tree_node(p, Null, Null, 0, v))
      m1 == _insert_link(m0, insert_left, p, leaf, h)
  IN  Updater_update(k, m1, leaf, unbalanced, h)

\* "Rebalance the tree": the rest of _insert, on the heap m2 of _insert_update.
_insert_rebalance(k, m2, unbalanced, h) ==
  IF unbalanced # h THEN _rebalance(k, m2, unbalanced, h) ELSE m2

_insert(k, m, insert_left, p, v, unbalanced, h) ==
  [m |-> _insert_rebalance(k, _insert_update(k, m, insert_left, p, v,
                                             unbalanced, h),
                           unbalanced, h),
   first |-> allocate(k, m, h, v.first), second |-> TRUE, status |-> "ok"]

\* The descent of insert: the insertion point y, the deepest node of the path
\* with a balance other than 0, and the last comparison.
RECURSIVE insert_descend(_, _, _, _, _, _, _)
insert_descend(k, m, x, y, unbalanced, comp, key) ==
  IF x # Null
    THEN LET c == _compare(k, key, m[x]._value.first)
         IN  insert_descend(k, m, IF c THEN m[x]._left ELSE m[x]._right, x,
                            IF m[x]._balance # 0 THEN x ELSE unbalanced, c, key)
    ELSE [y |-> y, unbalanced |-> unbalanced, comp |-> comp]

\* The tail that stores the new value in the entry it found.
insert_tail_overwrite(k, m, j, d, v, h) ==
  IF j = Hang THEN [m |-> m, first |-> Null, second |-> FALSE, status |-> "hang"]
  ELSE IF ~IsNode(j) THEN [m |-> m, first |-> Null, second |-> FALSE, status |-> "fault"]
  ELSE IF _compare(k, m[j]._value.first, v.first)
    THEN _insert(k, m, d.comp, d.y, v, d.unbalanced, h)
    ELSE [m |-> [m EXCEPT ![j]._value.second = v.second],
          first |-> j, second |-> FALSE, status |-> "ok"]

\* insert, from "iterator j = iterator(y)" on, once j is where the key's
\* predecessor or the key itself would be.
insert_tail(k, m, j, d, v, h) ==
  IF j = Hang THEN [m |-> m, first |-> Null, second |-> FALSE, status |-> "hang"]
  ELSE IF ~IsNode(j) THEN [m |-> m, first |-> Null, second |-> FALSE, status |-> "fault"]
  ELSE IF _compare(k, m[j]._value.first, v.first)
    THEN _insert(k, m, d.comp, d.y, v, d.unbalanced, h)
    ELSE [m |-> m, first |-> j, second |-> FALSE, status |-> "ok"]

insert(k, m, h, v) ==
  LET d == insert_descend(k, m, m[h]._parent, h, h, TRUE, v.first)
  IN  IF d.comp
        THEN IF d.y = begin(m, h)
               THEN _insert(k, m, d.comp, d.y, v, d.unbalanced, h)
               ELSE insert_tail(k, m, _avl_tree_decrement(m, d.y), d, v, h)
        ELSE insert_tail(k, m, d.y, d, v, h)

\* The retrace of the insertion point's balance done before the allocation.
_insert_bad_alloc_after_retrace(k, m, insert_left, p, v, unbalanced, h) ==
  [m |-> [m EXCEPT ![p]._balance = IF insert_left THEN @ - 1 ELSE @ + 1],
   first |-> Null, second |-> FALSE, status |-> "bad_alloc"]

\* _insert when _alloc.allocate(1), its first statement, throws
\* std::bad_alloc: nothing is written and the exception leaves _insert.
_insert_bad_alloc(k, m, insert_left, p, v, unbalanced, h) ==
  [m |-> m, first |-> Null, second |-> FALSE, status |-> "bad_alloc"]

\* insert with an allocator that has no memory left: no statement of insert
\* catches, so what leaves _insert leaves insert.
insert_tail_bad_alloc(k, m, j, d, v, h) ==
  IF j = Hang THEN [m |-> m, first |-> Null, second |-> FALSE, status |-> "hang"]
  ELSE IF ~IsNode(j) THEN [m |-> m, first |-> Null, second |-> FALSE, status |-> "fault"]
  ELSE IF _compare(k, m[j]._value.first, v.first)
    THEN _insert_bad_alloc(k, m, d.comp, d.y, v, d.unbalanced, h)
    ELSE [m |-> m, first |-> j, second |-> FALSE, status |-> "ok"]

insert_bad_alloc(k, m, h, v) ==
  LET d == insert_descend(k, m, m[h]._parent, h, h, TRUE, v.first)
  IN  IF d.comp
        THEN IF d.y = begin(m, h)
               THEN _insert_bad_alloc(k, m, d.comp, d.y, v, d.unbalanced, h)
               ELSE insert_tail_bad_alloc(k, m, _avl_tree_decrement(m, d.y), d, v, h)
        ELSE insert_tail_bad_alloc(k, m, d.y, d, v, h)

RECURSIVE find_loop(_, _, _, _, _)
find_loop(k, m, x, y, key) ==
  IF x # Null
    THEN IF ~_compare(k, m[x]._value.first, key)
           THEN find_loop(k, m, m[x]._left, x, key)
           ELSE find_loop(k, m, m[x]._right, y, key)
    ELSE y

\* find's result is the node of the iterator it returns; end() is the header.
find(k, m, h, key) ==
  LET j == find_loop(k, m, m[h]._parent, h, key)
  IN  IF j = h \/ _compare(k, key, m[j]._value.first) THEN h ELSE j

\* ------------------------------------------------ overlap-query iterator
STACK_SIZE == 64

\* One turn of the while loop of _forward, entered with _sp > 0, up to the
\* test of _overlap: the pop and the two pushes.
_forward_turn(m, it) ==
  LET node == it._stack[it._sp]
      s0   == SubSeq(it._stack, 1, it._sp - 1)
  IN  IF node = Null
        THEN [it EXCEPT !._node = Null, !._stack = s0, !._sp = Len(s0),
                        !.status = "fault"]
        ELSE LET l  == m[node]._left
                 s1 == IF l # Null
                          /\ Less(it._interval.first, m[l]._value.second.max)
                         THEN Append(s0, l) ELSE s0
                 r  == m[node]._right
                 s2 == IF r # Null
                          /\ Less(m[r]._value.second.min, it._interval.second)
                         THEN Append(s1, r) ELSE s1
             IN  [it EXCEPT !._node = node, !._stack = s2, !._sp = Len(s2),
                            !.status = IF Len(s2) > STACK_SIZE
                                         THEN "fault" ELSE "ok"]

\* _forward: the next overlapping node in stack order, or _end.
RECURSIVE _forward(_, _)
RECURSIVE _forward_rest(_, _)
\* The rest of a turn: "if (_overlap(...)) return;", or the next turn.
_forward_rest(m, it) ==
  IF it.status # "ok" THEN it
  ELSE IF Interval_overlap(it._interval, m[it._node]._value.first) THEN it
  ELSE _forward(m, it)

_forward(m, it) ==
  IF it._sp > 0
    THEN _forward_rest(m, _forward_turn(m, it))
    ELSE [it EXCEPT !._node = it._end]

\* A constructor that stores the root in two slots.
_interval_iterator_push_twice(root, i, e) ==
  [_node |-> Null, _interval |-> i, _end |-> e,
   _stack |-> <<root, root>>, _sp |-> 2, status |-> "ok"]

\* The constructors up to their call of _forward: _sp(0), then
\* "_stack[_sp++] = root".
_interval_iterator_push(root, i, e) ==
  [_node |-> Null, _interval |-> i, _end |-> e,
   _stack |-> <<root>>, _sp |-> 1, status |-> "ok"]

\* _interval_iterator(root, i, e) and _interval_const_iterator(root, i, e)
_interval_iterator(m, root, i, e) ==
  _forward(m, _interval_iterator_push(root, i, e))

\* operator++ of an overlap-query iterator
iterator_increment(m, it) == _forward(m, it)

equal_range(m, o, i) == _interval_iterator(m, m[o._header]._parent, i, o._header)

equal_range_key(m, o, key) == equal_range(m, o, pair(key, key))

\* ------------------------------------------------------------ construction
\* avl_tree(): the object, and its header with it, is at address h.
\* _node_count is not initialised by the constructor and is never read except
\* by its own increment: the field counts from its indeterminate first value.
avl_tree(k, m, h) ==
  [m |-> m @@ (h :> _avl_tree_node(Null, h, h, 0, DefaultValue(k))),
   o |-> [_header |-> h, _node_count |-> 0]]

\* _clone_node(x): a new node of the tree of header h with x's value and
\* balance and no children; its _parent is set by the caller.
_clone_node(k, m, x, h) ==
  LET tmp == allocate(k, m, h, m[x]._value.first)
  IN  [m |-> m @@ (tmp :> _avl_tree_node(Null, Null, Null, m[x]._balance, m[x]._value)),
       top |-> tmp]

\* _copy(x, p): structural copy of the subtree of x under the parent p.  A
\* copy in progress is the heap m with the clone top of the node being
\* copied.
\* "top->_parent = p;"
_copy_parent(c, p) == [c EXCEPT !.m[c.top]._parent = p]

\* "p->_left = y; y->_parent = p;"
_copy_link_left(c, p) == [c EXCEPT !.m[p]._left = c.top, !.m[c.top]._parent = p]

\* "top->_right = ..." / "y->_right = ...": r is the finished copy of the
\* right subtree.
_copy_set_right(r, top) == [m |-> [r.m EXCEPT ![top]._right = r.top], top |-> top]

RECURSIVE _copy(_, _, _, _, _)
RECURSIVE _copy_left(_, _, _, _, _)
\* "if (x->_right) ... = _copy(_right(x), ...);"
_copy_right(k, c, x, h) ==
  IF c.m[x]._right # Null
    THEN _copy_set_right(_copy(k, c.m, c.m[x]._right, c.top, h), c.top)
    ELSE c

\* "p = top; x = _left(x);" and the while loop
_copy_down(k, c, x, h) == _copy_left(k, c.m, c.m[x]._left, c.top, h)

_copy(k, m, x, p, h) ==
  LET c == _copy_right(k, _copy_parent(_clone_node(k, m, x, h), p), x, h)
  IN  [m |-> _copy_down(k, c, x, h), top |-> c.top]

\* The while loop of _copy, which walks down the left links.
_copy_left(k, m, x, p, h) ==
  IF x = Null
    THEN m
    ELSE _copy_down(k, _copy_right(k, _copy_link_left(_clone_node(k, m, x, h), p), x, h),
                    x, h)

\* The loops of the copy constructor: the last node down one side.
RECURSIVE Leftmost(_, _)
Leftmost(m, n) == IF m[n]._left # Null THEN Leftmost(m, m[n]._left) ELSE n

RECURSIVE Rightmost(_, _)
Rightmost(m, n) == IF m[n]._right # Null THEN Rightmost(m, m[n]._right) ELSE n

\* The body of the copy constructor once _copy has returned c.
avl_tree_copy_links(c, h) ==
  LET m2 == [c.m EXCEPT ![h]._parent = c.top, ![c.top]._parent = h]
  IN  [m2 EXCEPT ![h]._left = Leftmost(m2, c.top), ![h]._right = Rightmost(m2, c.top)]

\* avl_tree(const avl_tree& o): the new object is at address h.  _header is
\* initialised from o._header, links included, and only a source with a root
\* has them replaced.
avl_tree_copy_body(k, m, o, h) ==
  IF m[o._header]._parent # Null
    THEN avl_tree_copy_links(_copy(k, m, m[o._header]._parent, h, h), h)
    ELSE m

avl_tree_copy(k, m, o, h) ==
  [m |-> avl_tree_copy_body(k, m @@ (h :> m[o._header]), o, h),
   o |-> [_header |-> h, _node_count |-> o._node_count]]

\* The members interval_tree adds to the base object b.o: _dummy_interval,
\* default-initialised, and _end(&_header, _dummy_interval, &_header).
interval_tree_members(b) ==
  [m |-> b.m,
   o |-> [_header |-> b.o._header, _node_count |-> b.o._node_count,
          _dummy_interval |-> pair(KeyDefault, KeyDefault),
          _end |-> _interval_iterator(b.m, b.o._header,
                                      pair(KeyDefault, KeyDefault), b.o._header)]]

\* interval_tree(): the base constructor, then the members.
interval_tree(m, h) == interval_tree_members(avl_tree("interval", m, h))

\* interval_tree(const interval_tree& o): the base copy constructor, then
\* the members.
interval_tree_copy(m, o, h) == interval_tree_members(avl_tree_copy("interval", m, o, h))

construct(k, m, h) == IF k = "avl" THEN avl_tree(k, m, h) ELSE interval_tree(m, h)

copy_construct(k, m, o, h) ==
  IF k = "avl" THEN avl_tree_copy(k, m, o, h) ELSE interval_tree_copy(m, o, h)

\* end() of either tree: the node of the iterator it returns.
end(k, o) == IF k = "avl" THEN o._header ELSE o._end._node

\* ----------------------------------------------------------------- inputs
\* value_type of avl_tree<int,int>::insert
AvlInputs(K) == {pair(key, data) : key \in K, data \in Datas}

\* value_type of interval_tree<int,int>::insert: ((lo, hi), data)
IntervalInputs(K) ==
  {pair(pair(lo, lo + span), data) : lo \in K, span \in Spans, data \in Datas}

\* The single-tree specification inserts a short interval with one payload
\* and a long one with the other.
DeepIntervalInputs ==
  {x \in IntervalInputs(Keys) :
     (x.first.second - x.first.first = 1) <=> (x.second = 1)}

NoCall ==
  [op |-> "none", tree |-> 0, arg |-> Null, type |-> "void",
   first |-> Null, second |-> FALSE]

EmptyMem == [a \in {} |-> Null]

NodeCount(t) == objs[t]._node_count

\* ---------------------------------------------------------------- actions
\* What a call of insert on tree t leaves behind: r is insert's outcome, type
\* tells whether insert hands its caller a pair or nothing, and keep whether
\* the caller keeps the argument and the result or drops them.
\* A call that std::bad_alloc leaves hands its caller the exception, and the
\* caller goes on.
Called(t, v, r, type, keep) ==
  /\ mem' = r.m
  /\ objs' = IF r.status = "ok" /\ r.second
               THEN [objs EXCEPT ![t]._node_count = @ + 1]
               ELSE objs
  /\ pc' = IF r.status \in {"ok", "bad_alloc"} THEN "ready" ELSE r.status
  /\ last' = [op |-> "insert", tree |-> IF keep THEN t ELSE 0,
              type |-> IF r.status = "bad_alloc" THEN "bad_alloc" ELSE type,
              arg |-> IF keep THEN v ELSE Null,
              first |-> IF keep /\ type = "pair" THEN r.first ELSE Null,
              second |-> IF keep /\ type = "pair" THEN r.second ELSE FALSE]
  /\ UNCHANGED kind

\* avl_tree::insert(v) on tree t, with at most bound entries
AvlInsertOn(t, v, bound, keep) ==
  /\ kind = "avl"
  /\ pc = "ready"
  /\ t \in DOMAIN objs
  /\ LET r == insert(kind, mem, objs[t]._header, v)
     IN  /\ r.second => NodeCount(t) < bound
         /\ Called(t, v, r, "pair", keep)

\* interval_tree::insert(x): the base class's insert of
\* (x.first, (max, min, data)), whose result it drops.
interval_tree_insert(m, h, x) ==
  insert("interval", m, h,
         pair(x.first, interval_tree_value(x.first.second, x.first.first, x.second)))

IntervalInsertOn(t, x, bound, keep) ==
  /\ kind = "interval"
  /\ pc = "ready"
  /\ t \in DOMAIN objs
  /\ LET r == interval_tree_insert(mem, objs[t]._header, x)
     IN  /\ r.second => NodeCount(t) < bound
         /\ Called(t, x, r, "void", keep)

Init ==
  /\ kind \in {"avl", "interval"}
  /\ LET c == construct(kind, EmptyMem, HeaderAddr(1))
     IN  mem = c.m /\ objs = <<c.o>>
  /\ pc = "ready"
  /\ last = NoCall
  /\ hist = <<[made |-> "default", args |-> {}]>>

\* One tree, grown to MaxNodes entries by a caller that drops what insert
\* returns.
AvlInsert(v) == AvlInsertOn(1, v, MaxNodes, FALSE) /\ UNCHANGED hist

IntervalInsert(x) == IntervalInsertOn(1, x, MaxNodes, FALSE) /\ UNCHANGED hist

Next ==
  \/ \E v \in AvlInputs(Keys) : AvlInsert(v)
  \/ \E x \in DeepIntervalInputs : IntervalInsert(x)

Spec == Init /\ [][Next]_vars

\* One tree, grown to MaxCallNodes entries by a caller that keeps the
\* argument and the result of its last call.
AvlCall(v) == AvlInsertOn(1, v, MaxCallNodes, TRUE) /\ UNCHANGED hist

IntervalCall(x) == IntervalInsertOn(1, x, MaxCallNodes, TRUE) /\ UNCHANGED hist

NextCall ==
  \/ \E v \in AvlInputs(CallKeys) : AvlCall(v)
  \/ \E x \in IntervalInputs(CallKeys) : IntervalCall(x)

SpecCall == Init /\ [][NextCall]_vars

\* Two trees.  The caller fills the first tree, then makes the second one,
\* empty or as a copy of the first, and works on it: a second tree made empty
\* is given arguments the first one was given, in an order of its own; a copy
\* is given any argument.  Each tree takes at most MaxCalls different
\* arguments.  hist keeps, for each tree, how it was made and the arguments
\* given to its insert so far.
Noted(t, v) ==
  /\ t \in DOMAIN hist
  /\ t = Len(hist)
  /\ (t = 2 /\ hist[2].made = "default") => v \in hist[1].args
  /\ Cardinality(hist[t].args \cup {v}) <= MaxCalls
  /\ hist' = [hist EXCEPT ![t].args = @ \cup {v}]

PairAvlInsert(t, v) == AvlInsertOn(t, v, 2 * MaxCalls, FALSE) /\ Noted(t, v)

PairIntervalInsert(t, x) == IntervalInsertOn(t, x, 2 * MaxCalls, FALSE) /\ Noted(t, x)

Made(c, op, made, args) ==
  /\ mem' = c.m
  /\ objs' = Append(objs, c.o)
  /\ last' = [op |-> op, tree |-> Len(objs) + 1, type |-> "void", arg |-> Null,
              first |-> Null, second |-> FALSE]
  /\ hist' = Append(hist, [made |-> made, args |-> args])
  /\ UNCHANGED <<kind, pc>>

\* A second tree, default-constructed.
Construct ==
  /\ pc = "ready"
  /\ Len(objs) = 1
  /\ Made(construct(kind, mem, HeaderAddr(2)), "construct", "default", {})

\* A second tree, copy-constructed from the first.
CopyConstruct ==
  /\ pc = "ready"
  /\ Len(objs) = 1
  /\ Made(copy_construct(kind, mem, objs[1], HeaderAddr(2)), "copy", "copy", {})

\* The two-tree specification inserts one payload into an avl_tree, and into
\* an interval_tree a short interval with one payload and a long one with
\* the other.
PairAvlInputs == {v \in AvlInputs(PairKeys) : v.second = 1}

PairIntervalInputs ==
  {x \in IntervalInputs(PairKeys) :
     (x.first.second - x.first.first = 1) <=> (x.second = 1)}

NextPair ==
  \/ \E t \in {1, 2} : \E v \in PairAvlInputs : PairAvlInsert(t, v)
  \/ \E t \in {1, 2} : \E x \in PairIntervalInputs : PairIntervalInsert(t, x)
  \/ Construct
  \/ CopyConstruct

SpecPair == Init /\ [][NextPair]_vars

\* One tree, grown to MaxNodes entries, with an allocator that may have no
\* memory left at any call; the caller catches std::bad_alloc and goes on.
AvlInsertNoMemory(v) ==
  /\ kind = "avl"
  /\ pc = "ready"
  /\ Called(1, v, insert_bad_alloc(kind, mem, objs[1]._header, v), "pair", FALSE)
  /\ UNCHANGED hist

IntervalInsertNoMemory(x) ==
  /\ kind = "interval"
  /\ pc = "ready"
  /\ Called(1, x,
            insert_bad_alloc(kind, mem, objs[1]._header,
                             pair(x.first, interval_tree_value(x.first.second,
                                                               x.first.first, x.second))),
            "void", FALSE)
  /\ UNCHANGED hist

NextAlloc ==
  \/ \E v \in AvlInputs(Keys) : AvlInsert(v)
  \/ \E x \in DeepIntervalInputs : IntervalInsert(x)
  \/ \E v \in AvlInputs(Keys) : AvlInsertNoMemory(v)
  \/ \E x \in DeepIntervalInputs : IntervalInsertNoMemory(x)

SpecAlloc == Init /\ [][NextAlloc]_vars

\* ------------------------------------------------------------ properties
Header1 == HeaderAddr(1)

\* The entries of the single tree: every node allocated, the header apart.
Entries1 == DOMAIN mem \ {Header1}

RECURSIVE Height(_, _, _)
Height(m, x, fuel) ==
  IF x = Null \/ fuel = 0 THEN 0
  ELSE 1 + StdMax(Height(m, m[x]._left, fuel - 1), Height(m, m[x]._right, fuel - 1))

RECURSIVE Subtree(_, _, _)
Subtree(m, x, fuel) ==
  IF x = Null \/ fuel = 0 THEN {}
  ELSE {x} \cup Subtree(m, m[x]._left, fuel - 1)
           \cup Subtree(m, m[x]._right, fuel - 1)

Size(m) == Cardinality(DOMAIN m)

\* The nodes operator++ visits from x until it reaches e.
RECURSIVE InOrder(_, _, _, _)
InOrder(m, x, e, fuel) ==
  IF x = e THEN <<>>
  ELSE IF fuel = 0 \/ ~IsNode(x) THEN <<Hang>>
  ELSE <<x>> \o InOrder(m, _avl_tree_increment(m, x), e, fuel - 1)

KeyOf(m, n) == LowOf(kind, m[n]._value.first)

\* C1: after every completed insert, every entry's _balance is the height of
\* its right subtree minus the height of its left subtree, and is -1, 0 or 1.
C1_Balance ==
  pc = "ready" =>
    \A n \in Entries1 :
      LET b == Height(mem, mem[n]._right, Size(mem))
               - Height(mem, mem[n]._left, Size(mem))
      IN  mem[n]._balance = b /\ b \in {-1, 0, 1}

\* An avl_tree of five entries after an insert, with a left-heavy and a
\* right-heavy entry.
C1_Witness ==
  /\ kind = "avl" /\ pc = "ready" /\ last.op = "insert"
  /\ NodeCount(1) = 5
  /\ \E n \in Entries1 : mem[n]._balance = 1
  /\ \E n \in Entries1 : mem[n]._balance = 0 - 1
  /\ Height(mem, mem[Header1]._parent, Size(mem)) = 3

\* C2: from begin(), operator++ reaches end() after visiting every entry
\* once, in strictly increasing key order; and every entry's left subtree
\* holds smaller keys only, its right subtree greater keys only.
C2_Ordered ==
  pc = "ready" =>
    LET w == InOrder(mem, begin(mem, Header1), Header1, Size(mem))
    IN  /\ \A i \in DOMAIN w : IsNode(w[i])
        /\ {w[i] : i \in DOMAIN w} = Entries1
        /\ Len(w) = Cardinality(Entries1)
        /\ \A i \in DOMAIN w : i > 1 =>
             KeyOf(mem, w[i - 1]) < KeyOf(mem, w[i])
        /\ \A n \in Entries1 :
             /\ \A l \in Subtree(mem, mem[n]._left, Size(mem)) :
                  KeyOf(mem, l) < KeyOf(mem, n)
             /\ \A r \in Subtree(mem, mem[n]._right, Size(mem)) :
                  KeyOf(mem, n) < KeyOf(mem, r)

\* A walk over a full tree whose root is not its first or last key.
C2_Witness ==
  /\ pc = "ready" /\ last.op = "insert"
  /\ NodeCount(1) = MaxNodes
  /\ Len(InOrder(mem, begin(mem, Header1), Header1, Size(mem))) = MaxNodes
  /\ mem[mem[Header1]._parent]._left # Null
  /\ mem[mem[Header1]._parent]._right # Null

\* C8: the header's _parent is the root (null in an empty tree), its _left
\* the entry of the least key and its _right the entry of the greatest key,
\* both the header itself in an empty tree; begin() is the least entry and
\* begin() = end() exactly in an empty tree.
C8_Sentinel ==
  pc = "ready" =>
    LET hd == mem[Header1]
    IN  IF Entries1 = {}
          THEN /\ hd._parent = Null /\ hd._left = Header1 /\ hd._right = Header1
               /\ begin(mem, Header1) = Header1
          ELSE /\ hd._parent \in Entries1
               /\ mem[hd._parent]._parent = Header1
               /\ Subtree(mem, hd._parent, Size(mem)) = Entries1
               /\ \A n \in Entries1 : n # hd._parent => mem[n]._parent \in Entries1
               /\ hd._left \in Entries1 /\ hd._right \in Entries1
               /\ \A n \in Entries1 :
                    /\ KeyOf(mem, hd._left) <= KeyOf(mem, n)
                    /\ KeyOf(mem, n) <= KeyOf(mem, hd._right)
               /\ begin(mem, Header1) = hd._left
               /\ begin(mem, Header1) # Header1

\* A tree whose least key came after its root, and whose root moved.
C8_Witness ==
  /\ pc = "ready" /\ last.op = "insert"
  /\ NodeCount(1) >= 3
  /\ mem[Header1]._left # mem[Header1]._parent
  /\ mem[Header1]._right # mem[Header1]._parent
  /\ mem[mem[Header1]._left]._parent # mem[Header1]._parent

\* ------------------------------------------------------ interval queries
Interval(m, n) == m[n]._value.first

SetMaxOf(S) == CHOOSE x \in S : \A y \in S : y <= x

SetMinOf(S) == CHOOSE x \in S : \A y \in S : x <= y

\* The greatest high end and the least low end of the intervals of the
\* subtree of n, by a walk of the whole subtree.
TrueMax(m, n) == SetMaxOf({Interval(m, x).second : x \in Subtree(m, n, Size(m))})

TrueMin(m, n) == SetMinOf({Interval(m, x).first : x \in Subtree(m, n, Size(m))})

\* C3: after every interval_tree::insert, every entry's max is the greatest
\* high end and its min the least low end of the intervals of its subtree.
C3_Augmentation ==
  (kind = "interval" /\ pc = "ready") =>
    \A n \in Entries1 :
      /\ mem[n]._value.second.max = TrueMax(mem, n)
      /\ mem[n]._value.second.min = TrueMin(mem, n)

\* What the code keeps instead: the annotations are exact below the root, and
\* the root's also cover Key(), which the first insert takes from the header.
AugmentationBelowRoot ==
  (kind = "interval" /\ pc = "ready") =>
    \A n \in Entries1 :
      IF n = mem[Header1]._parent
        THEN /\ mem[n]._value.second.max = StdMax(TrueMax(mem, n), KeyDefault)
             /\ mem[n]._value.second.min = StdMin(TrueMin(mem, n), KeyDefault)
        ELSE /\ mem[n]._value.second.max = TrueMax(mem, n)
             /\ mem[n]._value.second.min = TrueMin(mem, n)

\* The query ranges: every pair of bounds around the stored end points.
QueryKeys == (MinKey - 1)..(MaxKey + 4)

Queries == {pair(a, b) : a \in QueryKeys, b \in QueryKeys}

\* The nodes a caller sees who advances it until it equals the iterator e.
RECURSIVE Yielded(_, _, _, _)
Yielded(m, it, e, fuel) ==
  IF it.status # "ok" THEN <<Fault>>
  ELSE IF it._node = e._node THEN <<>>
  ELSE IF fuel = 0 THEN <<Hang>>
  ELSE <<it._node>> \o Yielded(m, iterator_increment(m, it), e, fuel - 1)

QueryResult(m, o, q) == Yielded(m, equal_range(m, o, q), o._end, Size(m))

Overlapping(m, S, q) ==
  {n \in S : q.first < Interval(m, n).second /\ Interval(m, n).first < q.second}

ExactResult(w, S) ==
  /\ \A i \in DOMAIN w : IsNode(w[i])
  /\ {w[i] : i \in DOMAIN w} = S
  /\ Len(w) = Cardinality(S)

\* C4: for every interval tree built by inserts and every query (qlo, qhi),
\* advancing equal_range's iterator to end() yields each entry with
\* qlo < hi and lo < qhi once, and no other entry.
C4_QueryExact ==
  (kind = "interval" /\ pc = "ready") =>
    \A q \in Queries :
      ExactResult(QueryResult(mem, objs[1], q), Overlapping(mem, Entries1, q))

\* The same for the trees that hold an entry.
QueryExactNonEmpty ==
  (kind = "interval" /\ pc = "ready" /\ Entries1 # {}) =>
    \A q \in Queries :
      ExactResult(QueryResult(mem, objs[1], q), Overlapping(mem, Entries1, q))

\* C10: a query range that overlaps no stored interval gets an iterator equal
\* to end(), with no read through a null link, in every interval tree
\* reached by zero or more inserts; and find of an absent key returns end().
C10_EmptyResult ==
  pc = "ready" =>
    /\ kind = "interval" =>
         \A q \in Queries :
           Overlapping(mem, Entries1, q) = {} =>
             LET it == equal_range(mem, objs[1], q)
             IN  it.status = "ok" /\ it._node = objs[1]._end._node
    /\ kind = "avl" =>
         \A key \in QueryKeys :
           (\A n \in Entries1 : mem[n]._value.first # key) =>
             find(kind, mem, Header1, key) = end(kind, objs[1])

\* The same for the interval trees that hold an entry, and for every avl_tree.
EmptyResultNonEmpty ==
  pc = "ready" =>
    /\ (kind = "interval" /\ Entries1 # {}) =>
         \A q \in Queries :
           Overlapping(mem, Entries1, q) = {} =>
             LET it == equal_range(mem, objs[1], q)
             IN  it.status = "ok" /\ it._node = objs[1]._end._node
    /\ kind = "avl" =>
         \A key \in QueryKeys :
           IF \A n \in Entries1 : mem[n]._value.first # key
             THEN find(kind, mem, Header1, key) = end(kind, objs[1])
             ELSE LET f == find(kind, mem, Header1, key)
                  IN  f \in Entries1 /\ mem[f]._value.first = key

\* ------------------------------------------------------ duplicate inserts
\* C6: avl_tree::insert of a key already present returns (iterator to the
\* existing entry, false) and changes nothing: no node, link, balance factor,
\* header field or value.
C6_DuplicateNoOp ==
  [][(/\ kind = "avl" /\ pc = "ready" /\ last'.op = "insert"
      /\ \E n \in Entries1 : mem[n]._value.first = last'.arg.first)
     => (/\ mem' = mem /\ objs' = objs /\ pc' = "ready"
         /\ last'.type = "pair" /\ last'.second = FALSE
         /\ last'.first \in Entries1
         /\ mem[last'.first]._value.first = last'.arg.first)]_vars

\* An insert that returned false for a key stored with another value, in a
\* tree of at least three entries.
C6_Witness ==
  /\ kind = "avl" /\ pc = "ready" /\ last.op = "insert"
  /\ last.type = "pair" /\ ~last.second
  /\ last.first \in Entries1
  /\ mem[last.first]._value.first = last.arg.first
  /\ mem[last.first]._value.second # last.arg.second
  /\ NodeCount(1) >= 3

EntryOf(m, n) == pair(Interval(m, n), m[n]._value.second.data)

Nodes(t) == {a \in DOMAIN mem : HeaderAddr(t) < a /\ a < HeaderAddr(t) + Stride}

\* What operator++ shows from begin() to end() of the tree of header h: each
\* entry's value (key, data, and max and min in an interval tree) and balance.
DataSeq(m, h) ==
  LET w == InOrder(m, begin(m, h), h, Size(m))
  IN  [i \in DOMAIN w |->
         IF IsNode(w[i])
           THEN [value |-> m[w[i]]._value, balance |-> m[w[i]]._balance]
           ELSE w[i]]

\* The second tree right after its copy construction: no link of it leads
\* into the first tree, its header satisfies the sentinel invariant with
\* respect to its own entries, and its in-order sequence is the source's.
CopyIsDeep ==
  LET h1 == HeaderAddr(1)
      h2 == HeaderAddr(2)
      hd == mem[h2]
  IN  /\ \A a \in Nodes(2) \cup {h2} :
           {mem[a]._parent, mem[a]._left, mem[a]._right}
             \subseteq {Null, h2} \cup Nodes(2)
      /\ IF Nodes(1) = {}
           THEN hd._parent = Null /\ hd._left = h2 /\ hd._right = h2
           ELSE /\ hd._parent \in Nodes(2)
                /\ mem[hd._parent]._parent = h2
                /\ Subtree(mem, hd._parent, Size(mem)) = Nodes(2)
                /\ hd._left = Leftmost(mem, hd._parent)
                /\ hd._right = Rightmost(mem, hd._parent)
      /\ Cardinality(Nodes(2)) = Cardinality(Nodes(1))
      /\ DataSeq(mem, h2) = DataSeq(mem, h1)

\* An insert into the copy returns and leaves the source as it was.
CopyInsertIsLocal ==
  /\ pc' = "ready"
  /\ \A a \in Nodes(1) \cup {HeaderAddr(1)} : a \in DOMAIN mem' /\ mem'[a] = mem[a]

\* C9: copy construction of an avl_tree or interval_tree, an empty one
\* included, gives a tree with nodes and header links of its own that hold
\* the source's in-order sequence of keys, values, balances and max/min, and
\* a later insert into the copy returns and leaves the source unchanged.
C9_DeepCopy ==
  [][/\ last'.op = "copy" => CopyIsDeep'
     /\ (Len(objs) = 2 /\ hist[2].made = "copy" /\ last'.op = "insert")
        => CopyInsertIsLocal]_vars

\* The same for the copies of a tree that holds an entry.
DeepCopyOfEntries ==
  [][/\ (last'.op = "copy" /\ Nodes(1) # {}) => CopyIsDeep'
     /\ (Len(objs) = 2 /\ hist[2].made = "copy" /\ last'.op = "insert"
         /\ Nodes(1) # {})
        => CopyInsertIsLocal]_vars

\* What a caller gets from equal_range(q) on tree t by advancing to end():
\* the set of (interval, value) results, or the fault that ended the query.
Outcome(t, q) ==
  LET w == QueryResult(mem, objs[t], q)
  IN  {IF IsNode(w[i]) THEN EntryOf(mem, w[i]) ELSE w[i] : i \in DOMAIN w}

\* Both trees were made empty and given the same set of arguments.
SameSetTwice ==
  /\ kind = "interval" /\ pc = "ready"
  /\ Len(objs) = 2 /\ hist[2].made = "default"
  /\ hist[2].args = hist[1].args

DistinctLows(S) == \A x \in S : \A y \in S : x.first.first = y.first.first => x = y

\* C5: whatever finite set of (interval, value) pairs two empty interval
\* trees are given, each in an order of its own, every query equal_range(q)
\* gives the same set of (interval, value) results on both.  A query that
\* ends in the same fault on both trees counts as the same outcome here.
C5_PermutationInvariant ==
  SameSetTwice => \A q \in Queries : Outcome(1, q) = Outcome(2, q)

\* The same for the sets whose pairs have pairwise different low ends.
SameOutcomeDistinctLows ==
  (SameSetTwice /\ DistinctLows(hist[1].args)) =>
    \A q \in Queries : Outcome(1, q) = Outcome(2, q)

\* ------------------------------------------------------------ point query
\* The entries of the single tree whose interval [lo, hi) contains k.
Containing(m, S, k) ==
  {n \in S : Interval(m, n).first <= k /\ k < Interval(m, n).second}

PointResult(m, o, k) == Yielded(m, equal_range_key(m, o, k), o._end, Size(m))

\* C11: for every interval tree and every key k, advancing equal_range(k) to
\* end() yields every stored interval [lo, hi) with lo <= k < hi and yields
\* no stored interval without it.
C11_PointQuery ==
  (kind = "interval" /\ pc = "ready") =>
    \A k \in QueryKeys :
      LET w == PointResult(mem, objs[1], k)
      IN  /\ \A n \in Containing(mem, Entries1, k) : \E i \in DOMAIN w : w[i] = n
          /\ \A i \in DOMAIN w :
               IsNode(w[i]) => w[i] \in Containing(mem, Entries1, k)

\* What the code yields on a tree that holds an entry: the stored intervals
\* with lo < k < hi, each once.
PointQueryStrict ==
  (kind = "interval" /\ pc = "ready" /\ Entries1 # {}) =>
    \A k \in QueryKeys :
      ExactResult(PointResult(mem, objs[1], k),
                  {n \in Entries1 : Interval(mem, n).first < k
                                     /\ k < Interval(mem, n).second})

\* --------------------------------------------------- what insert reports
\* C12: interval_tree::insert hands its caller a pair (handle, inserted): the
\* handle is the entry with the argument's key, the new one or the one that
\* was there, and inserted tells whether an element was added.
C12_InsertReportsPair ==
  [][(kind = "interval" /\ pc = "ready" /\ last'.op = "insert")
     => (/\ pc' = "ready"
         /\ last'.type = "pair"
         /\ last'.first \in DOMAIN mem' \ {Header1}
         /\ Interval(mem', last'.first).first = last'.arg.first.first
         /\ last'.second <=> (DOMAIN mem' # DOMAIN mem))]_vars

\* What the base class's insert returns inside interval_tree::insert, which
\* drops it: the entry with the argument's low end, and whether it is new.
BaseInsertReportsPair ==
  (kind = "interval" /\ pc = "ready") =>
    \A x \in IntervalInputs(CallKeys) :
      LET r == interval_tree_insert(mem, Header1, x)
      IN  /\ r.status = "ok"
          /\ r.first \in DOMAIN r.m \ {Header1}
          /\ Interval(r.m, r.first).first = x.first.first
          /\ r.second <=> (DOMAIN r.m # DOMAIN mem)

\* ------------------------------------------------------ allocation failure
\* The value avl_tree::insert is given for the argument x of the instance.
InsertValue(x) ==
  IF kind = "avl"
    THEN x
    ELSE pair(x.first, interval_tree_value(x.first.second, x.first.first, x.second))

\* C13: an insert whose node allocation fails hands std::bad_alloc to its
\* caller and leaves the tree as it was before the call: every node, link,
\* header field, balance and max/min, and the entry count.  An insert of an
\* absent key is one that allocates: with no memory left, each of them ends
\* that way.
C13_AllocFailureNoChange ==
  [][(pc = "ready" /\ last'.type = "bad_alloc")
     => /\ mem' = mem /\ objs' = objs /\ pc' = "ready"
        /\ \A x \in IF kind = "avl" THEN AvlInputs(Keys) ELSE DeepIntervalInputs :
             LET r == insert_bad_alloc(kind, mem, Header1, InsertValue(x))
             IN  (\A n \in Entries1 : KeyOf(mem, n) # LowOf(kind, x.first))
                   => (r.status = "bad_alloc" /\ r.m = mem)]_vars

\* A tree of at least three entries, one of them not balanced, whose last
\* insert failed to allocate.
C13_Witness ==
  /\ pc = "ready" /\ last.op = "insert" /\ last.type = "bad_alloc"
  /\ NodeCount(1) >= 3
  /\ \E n \in Entries1 : mem[n]._balance # 0

\* --------------------------------------------------------------- rotations
\* The value insert was given, read back from the node it made.
Inserted(m, leaf) ==
  InsertValue(IF kind = "avl" THEN m[leaf]._value ELSE EntryOf(m, leaf))

\* The descent insert makes for v in the tree of heap m.
Descent(m, v) ==
  insert_descend(kind, m, m[Header1]._parent, Header1, Header1, TRUE, v.first)

\* The heap on which _insert, having linked the node of v below d.y and
\* retraced the balances, decides whether to call _rebalance.
Retraced(m, v, d) ==
  _insert_update(kind, m, d.comp, d.y, v, d.unbalanced, Header1)

\* The rotations of _insert on the retraced heap r with candidate u.
RotationsOf(r, u) ==
  IF u # Header1 THEN _rebalance_rotations(r, u) ELSE <<>>

RotationsOfInsert(m, v) ==
  RotationsOf(Retraced(m, v, Descent(m, v)), Descent(m, v).unbalanced)

\* One rotation at u lifts its heavy-side child c into u's place.
LiftedChild(m, n, u, c) ==
  /\ n[u]._balance = 0
  /\ n[c]._balance = 0
  /\ n[c]._parent = m[u]._parent
  /\ n[u]._parent = c

\* Two rotations lift g, the inner child of c, above both c and u.
LiftedGrandchild(m, n, u, c, g) ==
  /\ n[g]._parent = m[u]._parent
  /\ n[u]._parent = g
  /\ n[c]._parent = g

\* An insert takes heap m to heap n; r is the retraced heap, u the candidate
\* and rots the rotations made.
RotatedAsClaimed(m, n, r, u, rots) ==
  /\ Len(rots) <= 2
  /\ rots # <<>> => (u # Header1 /\ r[u]._balance \in {2, 0 - 2})
  /\ (u # Header1 /\ r[u]._balance = 2) =>
        IF r[r[u]._right]._balance > 0
          THEN /\ rots = <<[dir |-> "left", at |-> u]>>
               /\ LiftedChild(m, n, u, r[u]._right)
          ELSE /\ rots = <<[dir |-> "right", at |-> r[u]._right],
                           [dir |-> "left", at |-> u]>>
               /\ LiftedGrandchild(m, n, u, r[u]._right, r[r[u]._right]._left)
  /\ (u # Header1 /\ r[u]._balance = 0 - 2) =>
        IF r[r[u]._left]._balance < 0
          THEN /\ rots = <<[dir |-> "right", at |-> u]>>
               /\ LiftedChild(m, n, u, r[u]._left)
          ELSE /\ rots = <<[dir |-> "left", at |-> r[u]._left],
                           [dir |-> "right", at |-> u]>>
               /\ LiftedGrandchild(m, n, u, r[u]._left, r[r[u]._left]._right)
  /\ rots = <<>> => \A x \in DOMAIN m \ {Header1} : n[x]._parent = m[x]._parent
  /\ n = _rebalance_rotate(kind,
                           IF u # Header1 THEN _rebalance_balances(r, u) ELSE r,
                           rots, Header1)

InsertRotatedAsClaimed(m, n, v) ==
  RotatedAsClaimed(m, n, Retraced(m, v, Descent(m, v)),
                   Descent(m, v).unbalanced, RotationsOfInsert(m, v))

\* The argument that stores key i: i itself, or the interval [i, i + 1).
Keyed(i) == InsertValue(IF kind = "avl" THEN pair(i, 1) ELSE pair(pair(i, i + 1), 1))

\* The heap of a new tree after insert of each key of the sequence, in turn.
RECURSIVE Grown(_)
Grown(keys) ==
  IF keys = <<>>
    THEN construct(kind, EmptyMem, Header1).m
    ELSE insert(kind, Grown(SubSeq(keys, 1, Len(keys) - 1)), Header1,
                Keyed(keys[Len(keys)])).m

KeysInOrder(m) ==
  LET w == InOrder(m, begin(m, Header1), Header1, Size(m))
  IN  [i \in DOMAIN w |-> IF IsNode(w[i]) THEN KeyOf(m, w[i]) ELSE w[i]]

\* insert of 10, of 20 and of 30 into a new tree: g0 is the new tree and
\* g1, g2, g3 are what the three inserts leave.
AscendingIn(g0, g1, g2, g3) ==
  /\ RotationsOfInsert(g0, Keyed(10)) = <<>>
  /\ RotationsOfInsert(g1, Keyed(20)) = <<>>
  /\ \E u \in DOMAIN g2 \ {Header1} :
       /\ KeyOf(g2, u) = 10
       /\ RotationsOfInsert(g2, Keyed(30)) = <<[dir |-> "left", at |-> u]>>
  /\ KeyOf(g3, g3[Header1]._parent) = 20
  /\ KeysInOrder(g3) = <<10, 20, 30>>

Ascending ==
  AscendingIn(Grown(<<>>), Grown(<<10>>), Grown(<<10, 20>>), Grown(<<10, 20, 30>>))

\* C14: in an insert, rotations happen only when the candidate's balance is
\* +2 or -2 after the retrace; then there is one rotation, at the candidate,
\* when its heavy-side child's balance has the same sign, and both balances
\* become 0, and otherwise two, at that child and then at the candidate; no
\* insert makes more than two; and inserting 10, 20, 30 makes one left
\* rotation, after which 20 is the root of {10, 20, 30}.
C14_Rotations ==
  [][(pc = "ready" /\ pc' = "ready" /\ DOMAIN mem' # DOMAIN mem)
       => /\ InsertRotatedAsClaimed(mem, mem',
               Inserted(mem', CHOOSE a \in DOMAIN mem' : a \notin DOMAIN mem))
          /\ Ascending]_vars

\* The tree is the one that insert of three keys in ascending order leaves,
\* and the third of these inserts made one left rotation at the least key.
C14_Witness ==
  /\ pc = "ready"
  /\ NodeCount(1) = 3
  /\ \E a, b, c \in Keys :
       /\ a < b /\ b < c
       /\ mem = Grown(<<a, b, c>>)
       /\ \E u \in Entries1 :
            /\ KeyOf(mem, u) = a
            /\ RotationsOfInsert(Grown(<<a, b>>), Keyed(c))
                 = <<[dir |-> "left", at |-> u]>>
       /\ KeyOf(mem, mem[Header1]._parent) = b

\* ------------------------------------------------------- the query stack
\* The iterator of equal_range(q) as its constructor hands it to _forward.
Pushed(m, o, q) == _interval_iterator_push(m[o._header]._parent, q, o._header)

\* _sp after each turn of the loop of _forward, from the iterator it to the
\* turn that empties the stack: the turns of the construction and of every
\* advance, one after the other.
RECURSIVE SpAfterTurns(_, _, _)
RECURSIVE SpAfterTurn(_, _, _)
SpAfterTurn(m, turned, fuel) ==
  <<turned._sp>> \o SpAfterTurns(m, turned, fuel - 1)

SpAfterTurns(m, it, fuel) ==
  IF it._sp = 0 \/ it.status # "ok" THEN <<>>
  ELSE IF fuel = 0 THEN <<Hang>>
  ELSE SpAfterTurn(m, _forward_turn(m, it), fuel)

\* The iterator with which "for (it = ...; it != end(); ++it)" leaves.
RECURSIVE Walked(_, _, _, _)
Walked(m, it, e, fuel) ==
  IF it.status # "ok" \/ it._node = e._node \/ fuel = 0 THEN it
  ELSE Walked(m, iterator_increment(m, it), e, fuel - 1)

Levels(m) == Height(m, m[Header1]._parent, Size(m))

AllWithin(w, levels) == \A i \in DOMAIN w : w[i] >= 0 /\ w[i] <= levels

\* Within a turn _sp is least after the pop, one below its value on entry,
\* and greatest after the pushes.
SpWithin(m, it, levels, fuel) ==
  /\ it._sp >= 1 /\ it._sp <= levels
  /\ AllWithin(SpAfterTurns(m, it, fuel), levels)

WalkEnds(it, e) == it.status = "ok" /\ it._sp = 0 /\ it._node = e._node

\* The query ranges that tell the walks apart: _forward compares the low
\* bound with high ends and the high bound with low ends only, and any other
\* range compares with every stored end as one of these does.
StackQueries ==
  {pair(a, b) : a \in MinKey..(MaxKey + 3), b \in MinKey..(MaxKey + 1)}

StackBoundIn(m, o, levels, size) ==
  \A q \in StackQueries :
    /\ SpWithin(m, Pushed(m, o, q), levels, size)
    /\ WalkEnds(Walked(m, equal_range(m, o, q), o._end, size), o._end)

\* C15: while an overlap-query iterator over a non-empty tree is constructed
\* and advanced, _sp stays between 0 and the number of levels of the tree, so
\* no write to _stack leaves its STACK_SIZE slots, and the walk ends with
\* _sp = 0 and the iterator equal to end().
C15_StackBound ==
  (kind = "interval" /\ pc = "ready" /\ Entries1 # {}) =>
    /\ Levels(mem) <= STACK_SIZE
    /\ StackBoundIn(mem, objs[1], Levels(mem), Size(mem))

\* A tree of three levels and a query whose walk fills three slots.
C15_Witness ==
  /\ kind = "interval" /\ pc = "ready"
  /\ Levels(mem) = 3
  /\ \E q \in StackQueries :
       /\ ~AllWithin(SpAfterTurns(mem, Pushed(mem, objs[1], q), Size(mem)), 2)
       /\ WalkEnds(Walked(mem, equal_range(mem, objs[1], q), objs[1]._end,
                          Size(mem)),
                   objs[1]._end)
       /\ Len(QueryResult(mem, objs[1], q)) >= 3
====
